---- MODULE Spec2Model ----
(***************************************************************************)
(* Model of src/utils.py: the `github` client.  gh_request is the retry /  *)
(* backoff wrapper around requests.request; invite_user_org, get_user_id,  *)
(* list_teams and is_user_member_of_org are thin wrappers that call it.    *)
(*                                                                         *)
(* One call is in progress at a time (the client is synchronous).  Every   *)
(* iteration of the retry loop is one action: the environment chooses what *)
(* requests.request does (a response with a status and a body, or one of   *)
(* the requests exceptions) and the action applies the loop body to it.    *)
(*                                                                         *)
(* requests' exception hierarchy is the one of requests >= 2.27, where     *)
(* Response.json() raises requests.exceptions.JSONDecodeError, a subclass  *)
(* of RequestException, on a body that is not JSON.                        *)
(***************************************************************************)
EXTENDS Integers, Sequences, FiniteSets, TLC

VARIABLES
    auth,            \* self.auth
    org,             \* self.org
    max_retries,     \* self.max_retries
    retry_delay,     \* self.retry_delay
    timeout,         \* self.timeout
    default_data,    \* the dict that is the default of gh_request's data
    default_teams,   \* the list that is the default of invite_user_org's teams
    pc,              \* "idle" | "loop" | "returned" | "done"
    call,            \* the operation in progress and its arguments
    attempt,         \* the loop variable of gh_request
    last_exception,  \* the local last_exception of gh_request
    trace,           \* what the call did so far: warnings, sleeps, requests, error log lines
    hist,            \* what requests.request did at each attempt so far
    ret,             \* how gh_request ended: a returned response or a raised error
    result,          \* how the operation called ended
    stdout           \* the lines the operation called has printed

vars == <<auth, org, max_retries, retry_delay, timeout, default_data,
          default_teams, pc, call, attempt, last_exception, trace, hist, ret,
          result, stdout>>

config == <<auth, org, max_retries, retry_delay, timeout>>

\* The objects made when the def statements ran, shared by all the calls.
defaults == <<default_data, default_teams>>

----------------------------------------------------------------------------
(* Bounds of the model *)

MaxRetries == 3      \* max_retries ranges over 0..MaxRetries
MaxDelay == 2        \* retry_delay is the default, 1, or MaxDelay
MaxId == 2           \* user ids in response bodies range over 1..MaxId

(* Program constants *)

DefaultTimeout == 30
DefaultRetryDelay == 1

----------------------------------------------------------------------------
(* Values *)

NoStatus == 0        \* Python None where a status code is expected
NoId == 0            \* a JSON body without an 'id' key

Statuses == {200, 201, 204, 302, 400, 401, 403, 404, 500, 503}

\* A response body: text that is JSON or not; a JSON body may hold an id.
\* Only get_user_id reads a key of a body, and only at status 200, so the
\* bodies of the other statuses are JSON without an id, or not JSON.
JsonBody(id) == [valid |-> TRUE, id |-> id]
NotJsonBody == [valid |-> FALSE, id |-> NoId]

BodiesOf(status) ==
    {NotJsonBody, JsonBody(NoId)}
        \cup (IF status = 200 THEN {JsonBody(i) : i \in 1..MaxId} ELSE {})

Responses == UNION {{[status |-> s, body |-> b] : b \in BodiesOf(s)} : s \in Statuses}

NoResponse == [status |-> NoStatus, body |-> NotJsonBody]

\* The value of a parsed JSON body, or Python None.
JsonNone == [present |-> FALSE, id |-> NoId]

\* Python exceptions: the class and the status of the attached response
\* (e.response), NoStatus when e.response is None.
NoException == [cls |-> "None", response |-> NoStatus]

Exc(cls, response) == [cls |-> cls, response |-> response]

\* The exceptions requests.request raises here.
RequestExceptions ==
    { Exc("ReadTimeout", NoStatus),
      Exc("ConnectionError", NoStatus),
      Exc("TooManyRedirects", 302) }

\* What one requests.request call does.
Outcomes ==
    { [kind |-> "response", res |-> r, exc |-> NoException] : r \in Responses }
      \cup
    { [kind |-> "exception", res |-> NoResponse, exc |-> e] : e \in RequestExceptions }

----------------------------------------------------------------------------
(* GithubAPIError *)

MsgAuth == "Authentication failed. Please check your GitHub token"
MsgClient == "Client error: "
MsgRate == "Rate limit exceeded or insufficient permissions"
MsgServer == "GitHub server error"
MsgTimeout == "Request timed out after "
MsgNetwork == "Network error: "
MsgAllFailed == "All retry attempts failed: "

\* GithubAPIError(message, status_code, response).  The message is the fixed
\* text and what the f-string formats into it: a number (num) or the text of
\* an exception (str).
GithubAPIError(message, num, str, status_code, response) ==
    [message |-> message, num |-> num, str |-> str,
     status_code |-> status_code, response |-> response]

NoError == GithubAPIError("", 0, "", NoStatus, JsonNone)

\* str(e) of an exception; str(None) is "None".
StrExc(e) == e.cls

----------------------------------------------------------------------------
(* The exception classes the except clauses of gh_request name *)

IsTimeout(e) == e.cls \in {"Timeout", "ConnectTimeout", "ReadTimeout"}

IsRequestException(e) ==
    \/ IsTimeout(e)
    \/ e.cls \in {"RequestException", "ConnectionError", "TooManyRedirects",
                  "JSONDecodeError"}

\* res.json(): the parsed body, or JSONDecodeError (no response attached)
\* when the body is not JSON.
ResJson(res) ==
    IF res.body.valid
    THEN [raised |-> FALSE, value |-> [present |-> TRUE, id |-> res.body.id],
          exc |-> NoException]
    ELSE [raised |-> TRUE, value |-> JsonNone,
          exc |-> Exc("JSONDecodeError", NoStatus)]

----------------------------------------------------------------------------
(* One iteration of the loop of gh_request *)

\* How a piece of the loop body ends:
\*   "return"   return res
\*   "raise"    a GithubAPIError leaves gh_request
\*   "except"   an exception raised inside the try block, on its way to the
\*              except clauses
\*   "next"     the iteration ends and the loop goes on
Ctl(ctl, res, err, exc) == [ctl |-> ctl, res |-> res, err |-> err, exc |-> exc]

Return(res) == Ctl("return", res, NoError, NoException)
NextIteration == Ctl("next", NoResponse, NoError, NoException)
Raised(e) == Ctl("except", NoResponse, NoError, e)
RaiseError(err) == Ctl("raise", NoResponse, err, NoException)

\* raise GithubAPIError(message, res.status_code, res.json()): the arguments
\* are evaluated first, so a body that is not JSON raises JSONDecodeError
\* instead, inside the try block.
RaiseForResponse(message, num, res) ==
    LET j == ResJson(res) IN
    IF j.raised THEN Raised(j.exc)
    ELSE RaiseError(GithubAPIError(message, num, "", res.status, j.value))

\* A slip: every status from 300 on is taken for a client error.
IsClientErrorFrom300(status) == 300 <= status /\ status < 500 /\ status # 403

IsClientError(status) == 400 <= status /\ status < 500 /\ status # 403

IsRetryableStatus(status) == status = 403 \/ status >= 500

\* A slip: the last attempt is taken to be number max_retries.
IsLastAttemptOffByOne(att, mr) == att = mr

IsLastAttempt(att, mr) == att = mr - 1

\* A slip: the branch that returns a 404 is missing.
IsNotFoundNever(status) == FALSE

IsNotFound(status) == status = 404

\* The try block after requests.request has answered.
ClassifyResponse(res, att, mr) ==
    IF IsClientError(res.status) THEN
        IF res.status = 401 THEN RaiseForResponse(MsgAuth, 0, res)
        ELSE IF IsNotFound(res.status) THEN Return(res)
        ELSE RaiseForResponse(MsgClient, res.status, res)
    ELSE IF IsRetryableStatus(res.status) THEN
        IF IsLastAttempt(att, mr) THEN
            IF res.status = 403 THEN RaiseForResponse(MsgRate, 0, res)
            ELSE RaiseForResponse(MsgServer, 0, res)
        ELSE NextIteration
    ELSE Return(res)

TryBlock(out, att, mr) ==
    IF out.kind = "exception" THEN Raised(out.exc)
    ELSE ClassifyResponse(out.res, att, mr)

\* A slip: the status of the attached response is dropped.
NetworkErrorStatusDropped(e) == NoStatus

\* The status the 'Network error' error carries:
\* getattr(e.response, 'status_code', None).
NetworkErrorStatus(e) == e.response

\* The except clauses, tried in order: Timeout first, then RequestException.
ExceptClauses(c, att, mr, tmo) ==
    IF c.ctl # "except" THEN c
    ELSE IF IsTimeout(c.exc) THEN
        IF IsLastAttempt(att, mr)
        THEN RaiseError(GithubAPIError(MsgTimeout, tmo, "", NoStatus, JsonNone))
        ELSE NextIteration
    ELSE IF IsRequestException(c.exc) THEN
        IF IsLastAttempt(att, mr)
        THEN RaiseError(GithubAPIError(MsgNetwork, 0, StrExc(c.exc),
                                       NetworkErrorStatus(c.exc), JsonNone))
        ELSE NextIteration
    ELSE c

\* last_exception after the iteration: both except clauses assign it.
LastExceptionAfter(c, last) ==
    IF c.ctl = "except" /\ IsRequestException(c.exc) THEN c.exc ELSE last

\* A slip: the exponent is the attempt, not the attempt before it.
RetryWaitOffByOne(delay, att) == delay * 2 ^ att

\* retry_wait = self.retry_delay * (2 ** (attempt - 1))
RetryWait(delay, att) == delay * 2 ^ (att - 1)

----------------------------------------------------------------------------
(* Requests *)

\* A dict is a function from its keys; {} is the function with no key.
EmptyDict == [k \in {} |-> 0]

\* A slip: the empty dict is encoded and sent too.
EncodeDataAlways(data) == [present |-> TRUE, json |-> data]

\* data = json.dumps(data) if data != {} else None
EncodeData(data) ==
    IF data # EmptyDict THEN [present |-> TRUE, json |-> data]
    ELSE [present |-> FALSE, json |-> EmptyDict]

\* A slip: line 50 writes into the dict it was given.
DataArgWrittenAtEntry(data) == [k \in {"encoded"} |-> 1]

\* The dict passed as data, after line 50: the statement binds the local
\* name to a new string (or None) and leaves the dict as it was.
DataArgAfterEntry(data) == data

BaseUrl == "https://api.github.com"

\* The arguments of requests.request.
Request(c, a, tmo) ==
    [method |-> c.method,
     url |-> <<BaseUrl>> \o c.path,
     headers |-> [Accept |-> "application/vnd.github+json",
                  Authorization |-> <<"Bearer ", a>>,
                  XGitHubApiVersion |-> "2022-11-28"],
     data |-> c.body,
     timeout |-> tmo]

NoCall == [op |-> "none", path |-> <<>>, method |-> "", data |-> EmptyDict,
           defaulted |-> FALSE, body |-> EncodeData(EmptyDict)]

NoRequest == Request(NoCall, "", 0)

\* What a call does that can be seen from outside, in order.
Ev(ev, n) == [ev |-> ev, n |-> n, req |-> NoRequest]
EvRequest(att, req) == [ev |-> "request", n |-> att, req |-> req]

\* str() of a small integer, as an f-string formats it.
Digits == <<"0", "1", "2", "3", "4", "5", "6", "7", "8", "9">>
IntStr(n) == Digits[n + 1]

----------------------------------------------------------------------------
(* How an operation ends *)

\* A Python value returned: None, an int, a bool or a Response.
PyNone == [type |-> "None", int |-> 0, bool |-> FALSE, res |-> NoResponse]
PyInt(n) == [type |-> "int", int |-> n, bool |-> FALSE, res |-> NoResponse]
PyBool(b) == [type |-> "bool", int |-> 0, bool |-> b, res |-> NoResponse]
PyResponse(r) == [type |-> "Response", int |-> 0, bool |-> FALSE, res |-> r]

NoResult == [kind |-> "none", value |-> PyNone, err |-> NoError, exc |-> NoException]
Returns(v) == [kind |-> "return", value |-> v, err |-> NoError, exc |-> NoException]
RaisesError(err) == [kind |-> "raise", value |-> PyNone, err |-> err, exc |-> NoException]
RaisesExc(e) == [kind |-> "exception", value |-> PyNone, err |-> NoError, exc |-> e]

\* A slip: the wrapper catches the error and returns None.
PropagateSwallowed(r) == Returns(PyNone)

\* An exception leaving gh_request leaves its caller too: no wrapper has a
\* try statement.
Propagate(r) == IF r.ctl = "raise" THEN RaisesError(r.err) ELSE RaisesExc(r.exc)

NoRet == Ctl("none", NoResponse, NoError, NoException)

\* The role that is the default of invite_user_org's role.
DefaultRole == "direct_member"

\* A slip: the team ids are left out of the dict.
InviteDataNoTeams(user, teams, role) ==
    [invitee_id |-> user, role |-> role]

\* The dict invite_user_org passes as data: lines 123-127.
InviteData(user, teams, role) ==
    [invitee_id |-> user, role |-> role, team_ids |-> teams]

\* The list passed as teams, after invite_user_org: it is put in the dict
\* and serialised, never changed.
TeamsArgAfterInvite(teams) == teams

\* invite_user_org after gh_request: return res.
InviteUserOrgResult(r) ==
    IF r.ctl = "return" THEN Returns(PyResponse(r.res)) ELSE Propagate(r)

MsgUnexpected == "Something unexpected happened"

\* list_teams after gh_request.  At status 200 the for statement evaluates
\* len(res): a Response has no __len__, so TypeError is raised before any
\* team is printed.
ListTeamsResult(r) ==
    IF r.ctl # "return" THEN Propagate(r)
    ELSE IF r.res.status = 200 THEN RaisesExc(Exc("TypeError", NoStatus))
    ELSE Returns(PyNone)

\* What list_teams prints.
ListTeamsPrinted(r) ==
    IF r.ctl = "return" /\ r.res.status # 200 THEN <<MsgUnexpected>> ELSE <<>>

\* gh_request called directly.
GhRequestResult(r) ==
    IF r.ctl = "return" THEN Returns(PyResponse(r.res)) ELSE Propagate(r)

\* A slip: every status but 404 is taken for a user found.
GetUserIdResultNot404(r) ==
    IF r.ctl # "return" THEN Propagate(r)
    ELSE IF r.res.status # 404 THEN
        LET j == ResJson(r.res) IN
        IF j.raised THEN RaisesExc(j.exc)
        ELSE IF j.value.id = NoId THEN RaisesExc(Exc("KeyError", NoStatus))
        ELSE Returns(PyInt(j.value.id))
    ELSE Returns(PyNone)

\* get_user_id after gh_request.
GetUserIdResult(r) ==
    IF r.ctl # "return" THEN Propagate(r)
    ELSE IF r.res.status = 200 THEN
        LET j == ResJson(r.res) IN
        IF j.raised THEN RaisesExc(j.exc)
        ELSE IF j.value.id = NoId THEN RaisesExc(Exc("KeyError", NoStatus))
        ELSE Returns(PyInt(j.value.id))
    ELSE Returns(PyNone)

\* A slip: 200 is taken for the status of a member.
IsUserMemberOfOrgResult200(r) ==
    IF r.ctl # "return" THEN Propagate(r)
    ELSE Returns(PyBool(r.res.status = 200))

\* is_user_member_of_org after gh_request.
IsUserMemberOfOrgResult(r) ==
    IF r.ctl # "return" THEN Propagate(r)
    ELSE Returns(PyBool(r.res.status = 204))

----------------------------------------------------------------------------
(* Inputs *)

Tokens == {"ghp_token"}
Orgs == {"acme"}
Users == {"octocat"}
UserIds == {MaxId}

Roles == {DefaultRole, "admin"}
TeamLists == {<<>>, <<MaxId>>}

\* The dicts a direct call of gh_request passes as data.
DataArgs == {EmptyDict, [k \in {"name"} |-> 1]}

----------------------------------------------------------------------------
(* State machine *)

\* The client after __init__.  max_retries and retry_delay are attributes
\* the caller may set: the default (3 and 1) and other values are tried.
Init ==
    /\ auth \in Tokens
    /\ org \in Orgs
    /\ timeout = DefaultTimeout
    /\ default_data = EmptyDict
    /\ default_teams = <<>>
    /\ max_retries \in (-1)..MaxRetries
    /\ retry_delay \in {DefaultRetryDelay, MaxDelay}
    /\ pc = "idle"
    /\ call = NoCall
    /\ attempt = 0
    /\ last_exception = NoException
    /\ trace = <<>>
    /\ hist = <<>>
    /\ ret = NoRet
    /\ result = NoResult
    /\ stdout = <<>>

\* Entry of gh_request: lines 50-51.  defaulted: no data was passed, so the
\* parameter is bound to the shared default dict.
Enter(op, path, method, data, defaulted) ==
    /\ pc = "idle"
    /\ pc' = "loop"
    /\ call' = [op |-> op, path |-> path, method |-> method, data |-> data,
                defaulted |-> defaulted, body |-> EncodeData(data)]
    /\ default_data' = IF defaulted THEN DataArgAfterEntry(default_data)
                       ELSE default_data
    /\ attempt' = 0
    /\ last_exception' = NoException
    /\ trace' = <<>>
    /\ hist' = <<>>
    /\ ret' = NoRet
    /\ result' = NoResult
    /\ stdout' = <<>>
    /\ UNCHANGED config

\* gh_request called directly: with the defaults (GET, no data), or with a
\* method and a dict of the caller's.
gh_request ==
    \/ /\ Enter("gh_request", <<"/user">>, "GET", default_data, TRUE)
       /\ UNCHANGED default_teams
    \/ /\ \E d \in DataArgs :
            Enter("gh_request", <<"/user/repos">>, "POST", d, FALSE)
       /\ UNCHANGED default_teams

\* invite_user_org(org, user): teams and role are the defaults.
invite_user_org_defaults ==
    /\ \E o \in Orgs, user \in UserIds :
        Enter("invite_user_org", <<"/orgs/", o, "/invitations">>, "POST",
              InviteData(user, default_teams, DefaultRole), FALSE)
    /\ default_teams' = TeamsArgAfterInvite(default_teams)

\* invite_user_org(org, user, teams, role)
invite_user_org ==
    /\ \E o \in Orgs, user \in UserIds, teams \in TeamLists, role \in Roles :
        /\ teams # <<>> /\ role # DefaultRole
        /\ Enter("invite_user_org", <<"/orgs/", o, "/invitations">>, "POST",
                 InviteData(user, teams, role), FALSE)
    /\ UNCHANGED default_teams

get_user_id ==
    /\ \E user \in Users :
        Enter("get_user_id", <<"/users/", user>>, "GET", default_data, TRUE)
    /\ UNCHANGED default_teams

list_teams ==
    /\ \E o \in Orgs :
        Enter("list_teams", <<"/orgs/", o, "/teams">>, "GET", default_data, TRUE)
    /\ UNCHANGED default_teams

is_user_member_of_org ==
    /\ \E o \in Orgs, user_id \in UserIds :
        Enter("is_user_member_of_org",
              <<"/orgs/", o, "/members/", IntStr(user_id)>>, "GET",
              default_data, TRUE)
    /\ UNCHANGED default_teams

\* A slip: the loop makes one iteration too few.
InRangeShort(att, mr) == att < mr - 1

\* for attempt in range(self.max_retries): there is an iteration for att.
InRange(att, mr) == att < mr

\* A slip: the warning and the sleep come before the first attempt too.
BeforeRequestAlways(att, delay) ==
    <<Ev("warning", att + 1), Ev("sleep", RetryWait(delay, att + 1))>>

\* Lines 55-58: what precedes the request of an attempt.
BeforeRequest(att, delay) ==
    IF att > 0
    THEN <<Ev("warning", att + 1), Ev("sleep", RetryWait(delay, att))>>
    ELSE <<>>

\* A slip: the except clauses write an error line for every exception.
ErrorLoggedOnExcept(c0, c) ==
    IF c.ctl = "raise" \/ c0.ctl = "except" THEN <<Ev("error", 0)>> ELSE <<>>

\* Line 24: building a GithubAPIError writes one error line.  c0 is how the
\* try block ended and c how the iteration ended.
ErrorLogged(c0, c) == IF c.ctl = "raise" THEN <<Ev("error", 0)>> ELSE <<>>

\* One iteration of the for loop: lines 53-99.
Attempt ==
    /\ pc = "loop"
    /\ InRange(attempt, max_retries)
    /\ \E out \in Outcomes :
        LET before == BeforeRequest(attempt, retry_delay)
            req == EvRequest(attempt, Request(call, auth, timeout))
            c0 == TryBlock(out, attempt, max_retries)
            c == ExceptClauses(c0, attempt, max_retries, timeout)
            logged == ErrorLogged(c0, c)
        IN  /\ trace' = trace \o before \o <<req>> \o logged
            /\ hist' = Append(hist, out)
            /\ last_exception' = LastExceptionAfter(c0, last_exception)
            /\ IF c.ctl = "next"
               THEN /\ attempt' = attempt + 1
                    /\ pc' = "loop"
                    /\ ret' = ret
               ELSE /\ attempt' = attempt
                    /\ pc' = "returned"
                    /\ ret' = c
    /\ UNCHANGED <<config, defaults, call, result, stdout>>

\* The loop has run out of attempts: line 101.
Exhausted ==
    /\ pc = "loop"
    /\ ~InRange(attempt, max_retries)
    /\ ret' = RaiseError(GithubAPIError(MsgAllFailed, 0, StrExc(last_exception),
                                        NoStatus, JsonNone))
    /\ trace' = Append(trace, Ev("error", 0))
    /\ pc' = "returned"
    /\ UNCHANGED <<config, defaults, call, attempt, last_exception, hist, result,
                   stdout>>

\* gh_request has returned or raised: the operation called goes on.
Finish ==
    /\ pc = "returned"
    /\ result' = CASE call.op = "gh_request" -> GhRequestResult(ret)
                   [] call.op = "get_user_id" -> GetUserIdResult(ret)
                   [] call.op = "is_user_member_of_org" -> IsUserMemberOfOrgResult(ret)
                   [] call.op = "invite_user_org" -> InviteUserOrgResult(ret)
                   [] call.op = "list_teams" -> ListTeamsResult(ret)
    /\ stdout' = IF call.op = "list_teams" THEN ListTeamsPrinted(ret) ELSE <<>>
    /\ pc' = "done"
    /\ UNCHANGED <<config, defaults, call, attempt, last_exception, trace, hist,
                   ret>>

\* The operation has handed its result to its caller: its frame, and with
\* it the locals of gh_request, is gone, and the client can be called again.
ReturnToCaller ==
    /\ pc = "done"
    /\ pc' = "idle"
    /\ call' = NoCall
    /\ attempt' = 0
    /\ last_exception' = NoException
    /\ trace' = <<>>
    /\ hist' = <<>>
    /\ ret' = NoRet
    /\ result' = NoResult
    /\ stdout' = <<>>
    /\ UNCHANGED <<config, defaults>>

Next ==
    \/ gh_request
    \/ invite_user_org_defaults
    \/ invite_user_org
    \/ get_user_id
    \/ list_teams
    \/ is_user_member_of_org
    \/ Attempt
    \/ Exhausted
    \/ Finish
    \/ ReturnToCaller

Spec == Init /\ [][Next]_vars

\* The call is synchronous code: once entered it runs on.  requests.request
\* ends, at the latest when self.timeout has passed, so an iteration that
\* can be made is made, and so are the raise after the loop and the code of
\* the wrapper after gh_request.  Whether a call ends does not depend on how
\* long it sleeps: the client has the default retry_delay here.
FairInit == Init /\ retry_delay = DefaultRetryDelay

FairSpec ==
    /\ FairInit
    /\ [][Next]_vars
    /\ WF_vars(Attempt)
    /\ WF_vars(Exhausted)
    /\ WF_vars(Finish)

----------------------------------------------------------------------------
(* What the properties below speak of *)

\* gh_request has returned or raised.
Ended == pc \in {"returned", "done"}

Attempts == Len(hist)

EventsOf(ev) == {i \in DOMAIN trace : trace[i].ev = ev}

NumRequests == Cardinality(EventsOf("request"))
NumErrorLines == Cardinality(EventsOf("error"))

RECURSIVE SleptUpTo(_)
SleptUpTo(n) ==
    IF n = 0 THEN 0
    ELSE SleptUpTo(n - 1) + (IF trace[n].ev = "sleep" THEN trace[n].n ELSE 0)

TotalSlept == SleptUpTo(Len(trace))

\* Attempt i (counted from 1 in hist) got a response with this status.
Answered(i, status) ==
    /\ i \in DOMAIN hist
    /\ hist[i].kind = "response"
    /\ hist[i].res.status = status

AnsweredIn(i, statuses) ==
    /\ i \in DOMAIN hist
    /\ hist[i].kind = "response"
    /\ hist[i].res.status \in statuses

TimedOutAt(i) ==
    /\ i \in DOMAIN hist
    /\ hist[i].kind = "exception"
    /\ hist[i].exc.cls = "ReadTimeout"

NetworkErrorAt(i) ==
    /\ i \in DOMAIN hist
    /\ hist[i].kind = "exception"
    /\ hist[i].exc.cls \in {"ConnectionError", "TooManyRedirects"}

\* The call ended at attempt i by raising this GithubAPIError.
FailedAt(i, message, status_code) ==
    /\ Ended
    /\ Attempts = i
    /\ NumRequests = i
    /\ ret.ctl = "raise"
    /\ ret.err.message = message
    /\ ret.err.status_code = status_code

\* The call ended at attempt i by returning the response of that attempt.
ReturnedAt(i) ==
    /\ Ended
    /\ Attempts = i
    /\ NumRequests = i
    /\ ret.ctl = "return"
    /\ ret.res = hist[i].res

----------------------------------------------------------------------------
(* C1: a 401 response on any attempt, whatever its body, makes gh_request  *)
(* fail at once with the 'Authentication failed' error carrying status     *)
(* 401: the attempt that got it is the last one, so no request and no      *)
(* sleep follows.                                                          *)
C1_AuthFailsAtOnce ==
    \A i \in DOMAIN hist : Answered(i, 401) => FailedAt(i, MsgAuth, 401)

(* C2: when every attempt was answered with 403 or a status in 500..599,   *)
(* gh_request has made exactly max_retries requests when it ends, and it   *)
(* ends raising 'Rate limit exceeded or insufficient permissions' (last    *)
(* status 403) or 'GitHub server error' (last status >= 500), the error    *)
(* carrying the last status.                                               *)
C2_RetryableExhausts ==
    ( /\ Ended
      /\ Attempts >= 1
      /\ \A i \in DOMAIN hist : AnsweredIn(i, {403} \cup (500..599)) )
    => LET last == hist[Attempts].res.status IN
       FailedAt(max_retries, IF last = 403 THEN MsgRate ELSE MsgServer, last)

(* C3: no sleep precedes attempt 0; attempt k >= 1 is preceded by exactly  *)
(* one sleep, of retry_delay * 2^(k-1) seconds, whatever ended attempt     *)
(* k-1; a call that has made all its max_retries >= 1 attempts has slept   *)
(* retry_delay * (2^(max_retries-1) - 1) seconds in total.                 *)
C3_Backoff ==
    /\ \A i \in EventsOf("request") :
        IF trace[i].n = 0
        THEN i = 1
        ELSE /\ i > 2
             /\ trace[i - 1].ev = "sleep"
             /\ trace[i - 1].n = retry_delay * 2 ^ (trace[i].n - 1)
             /\ trace[i - 2].ev # "sleep"
    /\ \A i \in EventsOf("sleep") :
        i < Len(trace) /\ trace[i + 1].ev = "request"
    /\ \A k \in 1..NumRequests :
        \E i \in EventsOf("request") :
            trace[i].n = k - 1 /\ Cardinality({j \in EventsOf("request") : j <= i}) = k
    /\ (Ended /\ max_retries >= 1 /\ Attempts = max_retries)
        => TotalSlept = retry_delay * (2 ^ (max_retries - 1) - 1)

\* A call that used all three attempts, which a timeout, a 403 and a network
\* error ended, with the non-default delay d: it slept d and 2d seconds.
C3_Witness ==
    /\ Ended
    /\ max_retries = 3 /\ retry_delay = MaxDelay /\ Attempts = 3
    /\ TimedOutAt(1) /\ Answered(2, 403) /\ NetworkErrorAt(3)
    /\ TotalSlept = 3 * MaxDelay

(* C4: a 404 response on any attempt ends gh_request at that attempt: the  *)
(* call returns that very response, no request follows, and the call has   *)
(* written no error log line.                                              *)
C4_NotFoundReturned ==
    \A i \in DOMAIN hist :
        Answered(i, 404) => ReturnedAt(i) /\ NumErrorLines = 0

\* A 404 got on the third attempt, after two retried failures.
C4_Witness ==
    /\ pc = "returned"
    /\ Attempts = 3
    /\ Answered(3, 404)
    /\ ret.ctl = "return"

(* C5: a 4xx response other than 401, 403 and 404, on any attempt, makes   *)
(* gh_request fail at once with the 'Client error: <status>' error         *)
(* carrying that status, and no request follows.                           *)
C5_ClientErrorFailsAtOnce ==
    \A i \in DOMAIN hist :
        \A st \in (400..499) \ {401, 403, 404} :
            Answered(i, st) =>
                /\ FailedAt(i, MsgClient, st)
                /\ ret.err.num = st

C8_SuccessReturned ==
    \A i \in DOMAIN hist :
        AnsweredIn(i, 200..399) => ReturnedAt(i) /\ NumErrorLines = 0

\* A 302 got on the second attempt, after a 503.
C8_Witness ==
    /\ pc = "returned"
    /\ Attempts = 2
    /\ Answered(1, 503) /\ Answered(2, 302)
    /\ ret.ctl = "return"

----------------------------------------------------------------------------
(* The wrappers *)

\* The operation called has ended.
Finished(op) == pc = "done" /\ call.op = op

\* The last thing the API did in this call was to answer with a response.
LastAnswer == hist[Attempts].res

ApiAnswered == Attempts >= 1 /\ hist[Attempts].kind = "response"

\* The statuses gh_request hands to its caller: 404 and the 2xx and 3xx.
ReturnedStatuses == (200..399) \cup {404}

\* Every error status was answered with a JSON body, as the API does: no
\* body failed to decode in this call.
JsonErrorBodies ==
    \A i \in DOMAIN hist :
        (hist[i].kind = "response" /\ hist[i].res.status >= 400)
            => hist[i].res.body.valid

(* C9, as claimed: is_user_member_of_org returns a bool whatever status    *)
(* the API answers with, true when the status is 204 and false for 404     *)
(* and for any other status (here already when the API's error bodies are  *)
(* JSON).                                                                  *)
C9_MemberForEveryStatus ==
    (Finished("is_user_member_of_org") /\ ApiAnswered /\ JsonErrorBodies)
        => result = Returns(PyBool(LastAnswer.status = 204))

(* C9, amended: is_user_member_of_org returns true only when the API's     *)
(* status is 204, and returns false for 404 and for any other status that  *)
(* gh_request returns the response of (2xx, 3xx); it returns a value in    *)
(* these cases only: when gh_request raises (401, another 4xx, 403 or      *)
(* >= 500 on the last attempt, an exception on the last attempt) the       *)
(* error it raised leaves is_user_member_of_org and nothing is returned.   *)
C9_MemberIffNoContent ==
    Finished("is_user_member_of_org") =>
        /\ (ApiAnswered /\ LastAnswer.status \in ReturnedStatuses)
            => result = Returns(PyBool(LastAnswer.status = 204))
        /\ result.kind = "return"
            => ApiAnswered /\ LastAnswer.status \in ReturnedStatuses
        /\ result.kind # "return"
            => /\ ret.ctl # "return"
               /\ result.kind = "raise" <=> ret.ctl = "raise"
               /\ result.err = ret.err /\ result.exc = ret.exc

\* True after a 204 that followed a 403.
C9_Witness ==
    /\ Finished("is_user_member_of_org")
    /\ Attempts = 2
    /\ Answered(1, 403) /\ Answered(2, 204)
    /\ result = Returns(PyBool(TRUE))

(* C10, as claimed: get_user_id returns the id of the body when the API's  *)
(* status is 200 (and the body is a JSON object with an id), and returns   *)
(* None, raising nothing, for any other status the API answers with (here  *)
(* already when the API's error bodies are JSON).                          *)
C10_UserIdForEveryStatus ==
    (Finished("get_user_id") /\ ApiAnswered /\ JsonErrorBodies) =>
        /\ (LastAnswer.status = 200 /\ LastAnswer.body.valid /\ LastAnswer.body.id # NoId)
            => result = Returns(PyInt(LastAnswer.body.id))
        /\ LastAnswer.status # 200 => result = Returns(PyNone)

(* C10, amended: get_user_id returns the id of the body when the API's     *)
(* status is 200 and the body is a JSON object with an id, and returns     *)
(* None, raising nothing, for 404 and for any other non-200 status that    *)
(* gh_request returns the response of (2xx, 3xx); when gh_request raises   *)
(* (401, another 4xx, 403 or >= 500 on the last attempt, an exception on   *)
(* the last attempt) the GithubAPIError leaves get_user_id and nothing is  *)
(* returned.                                                               *)
C10_UserIdOrNone ==
    Finished("get_user_id") =>
        /\ ( /\ ApiAnswered
             /\ LastAnswer.status = 200
             /\ LastAnswer.body.valid /\ LastAnswer.body.id # NoId )
            => result = Returns(PyInt(LastAnswer.body.id))
        /\ (ApiAnswered /\ LastAnswer.status \in ReturnedStatuses \ {200})
            => result = Returns(PyNone)
        /\ result.kind = "return"
            => ApiAnswered /\ LastAnswer.status \in ReturnedStatuses
        /\ ret.ctl = "raise" => result = RaisesError(ret.err)

\* The id 2 read from a 200 that followed a timeout.
C10_Witness ==
    /\ Finished("get_user_id")
    /\ Attempts = 2
    /\ TimedOutAt(1) /\ Answered(2, 200)
    /\ result = Returns(PyInt(2))

(* C11: invite_user_org(org, user) with no teams and no role, answered     *)
(* with 201 on the first attempt, has made exactly one request, a POST to  *)
(* /orgs/{org}/invitations with the body {invitee_id: user, role:          *)
(* "direct_member", team_ids: []}, and returns the response unchanged.     *)
C11_InviteOnePost ==
    ( /\ Finished("invite_user_org")
      /\ call.data.role = DefaultRole
      /\ Answered(1, 201) )
    => /\ NumRequests = 1
       /\ trace[1].ev = "request"
       /\ trace[1].req.method = "POST"
       /\ \E o \in Orgs, user \in UserIds :
            /\ trace[1].req.url = <<"https://api.github.com", "/orgs/", o, "/invitations">>
            /\ trace[1].req.data =
                [present |-> TRUE,
                 json |-> [invitee_id |-> user, role |-> "direct_member",
                           team_ids |-> <<>>]]
       /\ result = Returns(PyResponse(hist[1].res))

\* An invitation with the defaults, with three attempts allowed, answered
\* with 201 and a JSON body at once.
C11_Witness ==
    /\ Finished("invite_user_org")
    /\ max_retries = 3
    /\ call.data = [invitee_id |-> MaxId, role |-> "direct_member", team_ids |-> <<>>]
    /\ Answered(1, 201) /\ hist[1].res.body.valid
    /\ result.kind = "return"

(* C12: list_teams(org), when the API's status is 200, completes without   *)
(* an error and without the failure message (it prints one name/id pair    *)
(* per team); when the status is not 200 it prints the generic failure     *)
(* message and raises no typed error.  Stated for the statuses whose       *)
(* response gh_request returns (200, the other 2xx and 3xx, 404).          *)
C12_ListTeams ==
    ( /\ Finished("list_teams")
      /\ ApiAnswered
      /\ LastAnswer.status \in ReturnedStatuses ) =>
        IF LastAnswer.status = 200
        THEN result.kind = "return" /\ stdout # <<"Something unexpected happened">>
        ELSE result.kind = "return" /\ stdout = <<"Something unexpected happened">>

----------------------------------------------------------------------------
(* C13: no call changes what a later call reads: in every step of every    *)
(* sequence of calls, returning or raising, auth, org, timeout,            *)
(* max_retries and retry_delay stay as they are, and the shared default    *)
(* dict (data) and list (teams) stay empty.                                *)
C13_NoSharedState ==
    /\ default_data = EmptyDict /\ default_teams = <<>>
    /\ [][ /\ config' = config
           /\ default_data' = EmptyDict
           /\ default_teams' = <<>> ]_vars

\* An invitation with the default teams that ended raising, after three
\* attempts with the default data: the defaults are empty.
C13_Witness ==
    /\ Finished("invite_user_org")
    /\ call.data.team_ids = default_teams
    /\ Attempts = 3
    /\ result.kind = "raise"
    /\ default_data = EmptyDict /\ default_teams = <<>>

Wrappers == {"invite_user_org", "get_user_id", "list_teams", "is_user_member_of_org"}

(* C14: a GithubAPIError that gh_request raised inside invite_user_org,    *)
(* get_user_id, list_teams or is_user_member_of_org is what the wrapper    *)
(* ends with: the same message, status code and body, no value returned,   *)
(* nothing printed, and no request made after gh_request raised.           *)
C14_ErrorsPropagate ==
    /\ []( (pc = "done" /\ call.op \in Wrappers /\ ret.ctl = "raise")
            => /\ result.kind = "raise"
               /\ result.err = ret.err
               /\ result.value = PyNone
               /\ stdout = <<>>
               /\ NumRequests = Attempts )
    /\ [][pc = "returned" => trace' = trace]_vars

\* get_user_id ending with the 'Authentication failed' error of a 401 with
\* a JSON body.
C14_Witness ==
    /\ Finished("get_user_id")
    /\ Answered(Attempts, 401)
    /\ result.kind = "raise"
    /\ result.err.message = MsgAuth /\ result.err.status_code = 401
    /\ result.err.response.present

NumWarnings == Cardinality(EventsOf("warning"))

(* C15: every attempt k >= 1 is preceded by one warning line, written      *)
(* before its sleep and its request, and a warning is written for nothing  *)
(* else, so a call that made m >= 1 requests wrote m - 1 warnings; an      *)
(* error line is written exactly when gh_request raises a GithubAPIError:  *)
(* one, the last thing the call does, in a call that raised and none in a  *)
(* call that returned a response or is still going on.                     *)
C15_LogLines ==
    /\ \A i \in EventsOf("request") :
        trace[i].n >= 1 =>
            /\ i > 2
            /\ trace[i - 2].ev = "warning" /\ trace[i - 2].n = trace[i].n + 1
            /\ trace[i - 1].ev = "sleep"
    /\ \A i \in EventsOf("warning") :
        /\ i + 2 <= Len(trace)
        /\ trace[i + 1].ev = "sleep"
        /\ trace[i + 2].ev = "request" /\ trace[i + 2].n >= 1
    /\ NumRequests >= 1 => NumWarnings = NumRequests - 1
    /\ NumRequests = 0 => NumWarnings = 0
    /\ NumErrorLines <= 1
    /\ NumErrorLines = 1 <=> (Ended /\ ret.ctl = "raise")
    /\ NumErrorLines = 1 => trace[Len(trace)].ev = "error"

\* A call that made three requests and raised: two warnings, one error line.
C15_Witness ==
    /\ pc = "returned"
    /\ NumRequests = 3 /\ NumWarnings = 2 /\ NumErrorLines = 1
    /\ TimedOutAt(1) /\ NetworkErrorAt(2)
    /\ ret.ctl = "raise"

DecidingErrors == {MsgAuth, MsgClient, MsgRate, MsgServer, MsgTimeout, MsgNetwork}

C17_Terminates ==
    /\ (pc = "loop") ~> Ended
    /\ []( /\ NumRequests <= (IF max_retries >= 0 THEN max_retries ELSE 0)
           /\ (Ended /\ max_retries >= 1) => NumRequests >= 1
           /\ pc \in {"idle", "loop", "returned", "done"} )
    /\ [][(Ended /\ pc' # "idle") => trace' = trace]_vars

\* A call that ended after all its three requests.
C17_Witness ==
    /\ Ended
    /\ max_retries = 3 /\ NumRequests = 3
    /\ Answered(1, 503) /\ TimedOutAt(2)

\* Attempt i ended in a retryable outcome.
RetryableAt(i) ==
    AnsweredIn(i, {403} \cup (500..599)) \/ TimedOutAt(i) \/ NetworkErrorAt(i)

(* C18: when all the max_retries attempts ended in retryable outcomes      *)
(* (403, >= 500, timeout, network error), the error raised is the one of   *)
(* the last attempt's outcome, whatever the earlier ones were: rate-limit  *)
(* with 403, server with the status, timed-out with no status, network     *)
(* with the status of the attached response.                               *)
C18_LastOutcomeDecides ==
    ( /\ Ended
      /\ max_retries >= 1
      /\ Attempts = max_retries
      /\ \A i \in DOMAIN hist : RetryableAt(i) )
    => LET last == hist[Attempts] IN
       /\ ret.ctl = "raise"
       /\ Answered(Attempts, 403) =>
            ret.err.message = MsgRate /\ ret.err.status_code = 403
       /\ AnsweredIn(Attempts, 500..599) =>
            ret.err.message = MsgServer /\ ret.err.status_code = last.res.status
       /\ TimedOutAt(Attempts) =>
            ret.err.message = MsgTimeout /\ ret.err.status_code = NoStatus
       /\ NetworkErrorAt(Attempts) =>
            ret.err.message = MsgNetwork /\ ret.err.status_code = last.exc.response

(* C19: all the requests of one gh_request call are equal: the method of   *)
(* the call, the URL made of the base URL and the path, the three headers, *)
(* the timeout, and the body, which is the JSON encoding of data when data *)
(* is a dict that is not empty and is absent when data is {}, defaulted or *)
(* passed.                                                                 *)
C19_SameRequest ==
    /\ \A i, j \in EventsOf("request") : trace[i].req = trace[j].req
    /\ \A i \in EventsOf("request") :
        LET req == trace[i].req IN
        /\ req.method = call.method
        /\ req.url = <<"https://api.github.com">> \o call.path
        /\ req.headers = [Accept |-> "application/vnd.github+json",
                          Authorization |-> <<"Bearer ", auth>>,
                          XGitHubApiVersion |-> "2022-11-28"]
        /\ req.timeout = timeout
        /\ req.data.present <=> call.data # <<>>
        /\ req.data.present => req.data.json = call.data

\* Three requests of a POST that was passed {} as data: no body in any.
C19_Witness ==
    /\ call.op = "gh_request" /\ call.method = "POST"
    /\ ~call.defaulted /\ call.data = EmptyDict
    /\ NumRequests = 3
    /\ \A i \in EventsOf("request") : ~trace[i].req.data.present

====
